---- MODULE Spec2Model ----
(***************************************************************************)
(* Model of the SHL assessment recommender (rag/retriever.py) and of the  *)
(* catalog loader and document builder of rag/embeddings.py.               *)
(*                                                                         *)
(* Strings that the code parses (the comma-separated test-type codes) are  *)
(* sequences of one-character strings, so that split() and strip() are     *)
(* modelled by what they do.  A test-type code is therefore a sequence of  *)
(* characters too: the code "K" is <<"K">>.  Strings the code only         *)
(* compares or copies (urls, names, domain labels) are TLA+ strings; the   *)
(* empty url "" is the one falsy url.  None is the empty sequence <<>> and *)
(* an integer result n is <<n>>, so that the two can be compared.          *)
(***************************************************************************)
EXTENDS Integers, Sequences, FiniteSets, TLC

(* ------------------------------ bounds --------------------------------- *)
\* longest candidate list handed to balanced_selection in SpecSel
MaxLen == 3
\* largest k handed to balanced_selection and to recommend
MaxK == 3
\* largest number of documents in the vector index in Spec
MaxIndex == 1
\* longest list of labels the intent model answers with
MaxDomains == 2
\* longest list of scores the scoring model answers with
MaxScores == 3
\* longest duration string handed to duration_as_int in SpecDur
MaxDurLen == 3
\* longest test_type string of a catalog row in SpecDoc
MaxTypeLen == 3
\* largest number of catalog rows in SpecDoc
MaxRows == 1
\* how far around the threshold the row counts of SpecLoad go
RowSlack == 1

(* --------------------------- program constants ------------------------- *)
TOP_K_RETRIEVE == 20

\* the smallest row count load_catalog accepts
MIN_ROWS == 377

\* required_columns of load_catalog, in the order of the list
required_columns ==
  <<"name", "url", "description", "test_type", "duration", "remote_testing",
    "adaptive_irt">>

\* the keys of TEST_TYPE_MAP, in the order of the dict literal
TEST_TYPE_CODES ==
  << <<"A">>, <<"B">>, <<"C">>, <<"D">>, <<"E">>, <<"K">>, <<"P">>, <<"S">> >>

Range(s) == {s[i] : i \in 1..Len(s)}

TEST_TYPE_MAP ==
  [c \in Range(TEST_TYPE_CODES) |->
     CASE c = <<"A">> -> "Ability & Aptitude"
       [] c = <<"B">> -> "Biodata & Situational Judgment"
       [] c = <<"C">> -> "Competencies"
       [] c = <<"D">> -> "Development & 360"
       [] c = <<"E">> -> "Assessment Exercises"
       [] c = <<"K">> -> "Knowledge & Skills"
       [] c = <<"P">> -> "Personality & Behaviour"
       [] c = <<"S">> -> "Simulations"]

\* the Literal type of QueryIntent.domains
DomainType ==
  {"Ability & Aptitude", "Biodata & Situational Judgment", "Competencies",
   "Development & 360", "Assessment Exercises", "Knowledge & Skills",
   "Personality & Behaviour", "Simulations"}

DOMAIN_TO_TEST_TYPES ==
  [d \in DomainType |->
     CASE d = "Ability & Aptitude" -> << <<"A">> >>
       [] d = "Biodata & Situational Judgment" -> << <<"B">> >>
       [] d = "Competencies" -> << <<"C">> >>
       [] d = "Development & 360" -> << <<"D">> >>
       [] d = "Assessment Exercises" -> << <<"E">> >>
       [] d = "Knowledge & Skills" -> << <<"K">> >>
       [] d = "Personality & Behaviour" -> << <<"P">> >>
       [] d = "Simulations" -> << <<"S">> >>]

(* ------------------------- python list helpers ------------------------- *)
Min(a, b) == IF a <= b THEN a ELSE b
Max(a, b) == IF a >= b THEN a ELSE b

\* x in s, for a list s
InList(x, s) == \E i \in 1..Len(s) : s[i] = x

\* s[:n] for n >= 0
Take(s, n) == SubSeq(s, 1, Min(n, Len(s)))

\* all lists over S of length at most n
BSeq(S, n) == UNION {[1..m -> S] : m \in 0..n}

\* the orders in which a python set S can be listed
Orderings(S) == {s \in [1..Cardinality(S) -> S] : Range(s) = S}

(* ------------------------- str.split, str.strip ------------------------ *)
Whitespace == {" "}

\* s.split(sep) for a one-character separator
RECURSIVE Split(_, _)
Split(s, sep) ==
  IF \A i \in 1..Len(s) : s[i] # sep
  THEN <<s>>
  ELSE LET i == CHOOSE n \in 1..Len(s) :
                   s[n] = sep /\ \A j \in 1..(n - 1) : s[j] # sep
       IN <<SubSeq(s, 1, i - 1)>> \o Split(SubSeq(s, i + 1, Len(s)), sep)

RECURSIVE LStrip(_)
LStrip(s) == IF s # <<>> /\ Head(s) \in Whitespace THEN LStrip(Tail(s)) ELSE s

RECURSIVE RStrip(_)
RStrip(s) ==
  IF s # <<>> /\ s[Len(s)] \in Whitespace
  THEN RStrip(SubSeq(s, 1, Len(s) - 1))
  ELSE s

\* s.strip()
Strip(s) == RStrip(LStrip(s))

\* [f(c) for c in parts if f(c)] with f = strip
RECURSIVE StripNonEmpty(_)
StripNonEmpty(parts) ==
  IF parts = <<>> THEN <<>>
  ELSE LET c == Strip(Head(parts))
       IN (IF c # <<>> THEN <<c>> ELSE <<>>) \o StripNonEmpty(Tail(parts))

(* ------------------------------ durations ----------------------------- *)
\* the values a duration field can hold: None, a str, a float, or NaN
NoDuration == [kind |-> "none", chars |-> <<>>, whole |-> 0]
StrDuration(s) == [kind |-> "str", chars |-> s, whole |-> 0]
FloatDuration(n) == [kind |-> "float", chars |-> <<>>, whole |-> n]
NaNDuration == [kind |-> "nan", chars |-> <<>>, whole |-> 0]

Digits == {"0", "1", "2", "3", "4", "5", "6", "7", "8", "9"}

DigitValue(ch) ==
  CASE ch = "0" -> 0 [] ch = "1" -> 1 [] ch = "2" -> 2 [] ch = "3" -> 3
    [] ch = "4" -> 4 [] ch = "5" -> 5 [] ch = "6" -> 6 [] ch = "7" -> 7
    [] ch = "8" -> 8 [] ch = "9" -> 9

\* the longest run of digits of s that starts at position i
RECURSIVE DigitRunFrom(_, _)
DigitRunFrom(s, i) ==
  IF i <= Len(s) /\ s[i] \in Digits
  THEN <<s[i]>> \o DigitRunFrom(s, i + 1)
  ELSE <<>>

\* re.search(r"(\d+)", s), from position i on: group 1 of the leftmost
\* match, <<>> when there is none
RECURSIVE re_search_digits(_, _)
re_search_digits(s, i) ==
  IF i > Len(s) THEN <<>>
  ELSE IF s[i] \in Digits THEN DigitRunFrom(s, i)
  ELSE re_search_digits(s, i + 1)

\* int(digits)
RECURSIVE int_of_digits(_)
int_of_digits(ds) ==
  IF ds = <<>> THEN 0
  ELSE 10 * int_of_digits(SubSeq(ds, 1, Len(ds) - 1)) + DigitValue(ds[Len(ds)])

\* duration_as_int(raw): <<n>> for the integer n, <<>> for None
duration_as_int_match(raw) ==
  IF raw.kind = "none" THEN <<>>
  ELSE IF raw.kind = "str"
  THEN (IF DigitRunFrom(raw.chars, 1) # <<>>
        THEN <<int_of_digits(DigitRunFrom(raw.chars, 1))>>
        ELSE <<>>)
  ELSE IF raw.kind = "float" THEN <<raw.whole>>
  ELSE <<>>

duration_as_int(raw) ==
  IF raw.kind = "none" THEN <<>>
  ELSE IF raw.kind = "str"
  THEN (IF re_search_digits(raw.chars, 1) # <<>>
        THEN <<int_of_digits(re_search_digits(raw.chars, 1))>>
        ELSE <<>>)                 \* float(raw) raises: no digit in raw
  ELSE IF raw.kind = "float" THEN <<raw.whole>>      \* int(float(raw))
  ELSE <<>>                        \* int(nan) raises

(* ----------------------------- catalog loader -------------------------- *)
\* a DataFrame is its set of column names and its number of rows
NoTable == [columns |-> {}, nrows |-> 0]

\* raise ValueError(text + arg)
ValueError(text, arg) ==
  [raised |-> TRUE, kind |-> "ValueError", text |-> text, arg |-> <<arg>>,
   df |-> NoTable]

\* a loader whose threshold test is "<="
load_catalog_strict(table) ==
  LET missing == {i \in 1..Len(required_columns) :
                    required_columns[i] \notin table.columns}
  IN IF missing # {}
     THEN ValueError("Missing required column: ",
                     required_columns[CHOOSE i \in missing : \A j \in missing : i <= j])
     ELSE IF table.nrows <= MIN_ROWS
     THEN ValueError("Expected >= 377 individual test solutions, found ", table.nrows)
     ELSE [raised |-> FALSE, kind |-> "", text |-> "", arg |-> <<>>, df |-> table]

\* load_catalog, from the DataFrame read_csv returned
load_catalog(table) ==
  LET missing == {i \in 1..Len(required_columns) :
                    required_columns[i] \notin table.columns}
  IN IF missing # {}
     THEN ValueError("Missing required column: ",
                     required_columns[CHOOSE i \in missing : \A j \in missing : i <= j])
     ELSE IF table.nrows < MIN_ROWS
     THEN ValueError("Expected >= 377 individual test solutions, found ", table.nrows)
     ELSE [raised |-> FALSE, kind |-> "", text |-> "", arg |-> <<>>, df |-> table]

(* --------------------------- document builder -------------------------- *)
\* a builder that compares the codes with the unstripped tokens
row_to_document_unstripped(row) ==
  LET raw_codes == row.test_type
      codes == Split(raw_codes, ",")
  IN [assessment_name |-> row.name,
      assessment_url  |-> row.url,
      test_type_codes |-> raw_codes,
      duration        |-> row.duration,
      is_type         |-> [c \in Range(TEST_TYPE_CODES) |-> InList(c, codes)]]

\* row_to_document: the metadata bag of the document built from a catalog row
row_to_document(row) ==
  LET raw_codes == row.test_type
      codes == StripNonEmpty(Split(raw_codes, ","))
  IN [assessment_name |-> row.name,
      assessment_url  |-> row.url,
      test_type_codes |-> raw_codes,
      duration        |-> row.duration,
      is_type         |-> [c \in Range(TEST_TYPE_CODES) |-> InList(c, codes)]]

\* [row_to_document(row) for _, row in df.iterrows()]
build_documents(rows) == [i \in 1..Len(rows) |-> row_to_document(rows[i])]

\* extract_test_types: the codes read back from a document (string storage)
extract_test_types(doc) == StripNonEmpty(Split(doc.test_type_codes, ","))

(* --------------------------- balanced_selection ------------------------ *)
\* per_type_target = max(1, k // max(1, len(required_test_types)))
per_type_target_halved(required, k) ==
  Max(1, k \div Max(1, Len(required) + 1))

per_type_target(required, k) ==
  Max(1, k \div Max(1, Len(required)))

\* the loop state of balanced_selection before the first document
SelInit(required) ==
  [selected    |-> <<>>,
   seen_urls   |-> {},
   type_counts |-> [t \in Range(required) |-> 0]]

\* [t for t in required_test_types if t in doc_types]
matching_types(required, doc) ==
  LET doc_types == extract_test_types(doc)
  IN SelectSeq(required, LAMBDA t : InList(t, doc_types))

\* the number of times the loop "for t in matching_types" visits t
Occurrences(t, s) == Cardinality({i \in 1..Len(s) : s[i] = t})

\* one iteration of the first loop, past its capacity check
FirstPassStep_annotating(st, doc, required, k) ==
  LET url == doc.assessment_url
      mt == matching_types(required, doc)
      can_add == \E i \in 1..Len(mt) :
                    st.type_counts[mt[i]] < per_type_target(required, k)
  IN IF url = "" \/ url \in st.seen_urls THEN st
     ELSE IF mt # <<>> /\ can_add
     THEN [selected    |-> Append(st.selected,
                                  [doc EXCEPT !.test_type_codes = Head(mt)]),
           seen_urls   |-> st.seen_urls \cup {url},
           type_counts |-> [t \in DOMAIN st.type_counts |->
                              st.type_counts[t] + Occurrences(t, mt)]]
     ELSE st

\* an iteration that accepts only when every matching count is below the
\* target
FirstPassStep_all_below(st, doc, required, k) ==
  LET url == doc.assessment_url
      mt == matching_types(required, doc)
      can_add == \A i \in 1..Len(mt) :
                    st.type_counts[mt[i]] < per_type_target(required, k)
  IN IF url = "" \/ url \in st.seen_urls THEN st
     ELSE IF mt # <<>> /\ can_add
     THEN [selected    |-> Append(st.selected, doc),
           seen_urls   |-> st.seen_urls \cup {url},
           type_counts |-> [t \in DOMAIN st.type_counts |->
                              st.type_counts[t] + Occurrences(t, mt)]]
     ELSE st

FirstPassStep(st, doc, required, k) ==
  LET url == doc.assessment_url
      mt == matching_types(required, doc)
      can_add == \E i \in 1..Len(mt) :
                    st.type_counts[mt[i]] < per_type_target(required, k)
  IN IF url = "" \/ url \in st.seen_urls THEN st
     ELSE IF mt # <<>> /\ can_add
     THEN [selected    |-> Append(st.selected, doc),
           seen_urls   |-> st.seen_urls \cup {url},
           type_counts |-> [t \in DOMAIN st.type_counts |->
                              st.type_counts[t] + Occurrences(t, mt)]]
     ELSE st

\* the first loop, from document i on
RECURSIVE FirstPassFrom(_, _, _, _, _)
FirstPassFrom(docs, i, st, required, k) ==
  IF i > Len(docs) \/ Len(st.selected) >= k THEN st
  ELSE FirstPassFrom(docs, i + 1,
                     FirstPassStep(st, docs[i], required, k),
                     required, k)

\* the states of the first loop: before document i, and after each
\* iteration that runs from there on
RECURSIVE FirstPassTrace(_, _, _, _, _)
FirstPassTrace(docs, i, st, required, k) ==
  IF i > Len(docs) \/ Len(st.selected) >= k THEN <<st>>
  ELSE <<st>> \o FirstPassTrace(docs, i + 1,
                                FirstPassStep(st, docs[i], required, k),
                                required, k)

FirstPass(docs, required, k) ==
  FirstPassFrom(docs, 1, SelInit(required), required, k)

\* one iteration of the second loop, past its capacity check
SecondPassStep_no_seen_check(st, doc) ==
  LET url == doc.assessment_url
  IN IF url # ""
     THEN [st EXCEPT !.selected = Append(@, doc), !.seen_urls = @ \cup {url}]
     ELSE st

\* an iteration that puts the fill in front of the list
SecondPassStep_prepending(st, doc) ==
  LET url == doc.assessment_url
  IN IF url # "" /\ url \notin st.seen_urls
     THEN [st EXCEPT !.selected = <<doc>> \o @, !.seen_urls = @ \cup {url}]
     ELSE st

SecondPassStep(st, doc) ==
  LET url == doc.assessment_url
  IN IF url # "" /\ url \notin st.seen_urls
     THEN [st EXCEPT !.selected = Append(@, doc), !.seen_urls = @ \cup {url}]
     ELSE st

\* the second loop, from document i on
RECURSIVE SecondPassFrom(_, _, _, _)
SecondPassFrom(docs, i, st, k) ==
  IF i > Len(docs) \/ Len(st.selected) >= k THEN st
  ELSE SecondPassFrom(docs, i + 1, SecondPassStep(st, docs[i]), k)

\* balanced_selection(docs, required_test_types, k), for k >= 0
balanced_selection_off_by_one(docs, required, k) ==
  Take(SecondPassFrom(docs, 1, FirstPass(docs, required, k + 1),
                      k + 1).selected, k + 1)

\* a selection that runs the second pass only
balanced_selection_fill_only(docs, required, k) ==
  Take(SecondPassFrom(docs, 1, SelInit(required), k).selected, k)

balanced_selection(docs, required, k) ==
  Take(SecondPassFrom(docs, 1, FirstPass(docs, required, k), k).selected, k)

(* ------------------------------ recommend ------------------------------ *)
\* detect_query_intent, given what the model call produced: a call that
\* failed, or a list of labels that QueryIntent validates
detect_query_intent_unguarded(answer) ==
  IF answer.kind = "error" \/ \E i \in 1..Len(answer.labels) : answer.labels[i] \notin DomainType
  THEN [raised |-> TRUE, result |-> <<>>]
  ELSE [raised |-> FALSE, result |-> answer.labels]

detect_query_intent(answer) ==
  IF answer.kind = "error"
  THEN [raised |-> TRUE, result |-> <<>>]
  ELSE IF \A i \in 1..Len(answer.labels) : answer.labels[i] \in DomainType
  THEN [raised |-> FALSE, result |-> answer.labels]
  ELSE [raised |-> FALSE, result |-> <<>>]     \* except ValidationError

\* infer_required_test_types: the set it builds; list(test_types) is one of
\* Orderings of it
infer_required_test_types(ds) ==
  UNION {IF ds[i] \in DOMAIN DOMAIN_TO_TEST_TYPES
         THEN Range(DOMAIN_TO_TEST_TYPES[ds[i]])
         ELSE {} : i \in 1..Len(ds)}

\* the safety fallback of recommend
WithFallback_none(required) == required

WithFallback(required) ==
  IF required = <<>> THEN << <<"K">>, <<"P">> >> ELSE required

\* per_type_k = max(1, TOP_K_RETRIEVE // max(1, len(required_test_types)))
per_type_k_whole(required) == Max(1, TOP_K_RETRIEVE)

per_type_k(required) == Max(1, TOP_K_RETRIEVE \div Max(1, Len(required)))

\* vectorstore.similarity_search(query, k, filter={is_type_<t>: True})
filtered_search(store, t, k) ==
  Take(SelectSeq(store, LAMBDA doc : doc.is_type[t]), k)

\* vectorstore.similarity_search(query, k)
similarity_search(store, k) == Take(store, k)

\* a merge that appends every document that has a url
RECURSIVE Merge_keeping_duplicates(_, _, _)
Merge_keeping_duplicates(acc, urls, docs) ==
  IF docs = <<>> THEN [retrieved |-> acc, seen_urls |-> urls]
  ELSE LET doc == Head(docs)
           url == doc.assessment_url
       IN IF url # ""
          THEN Merge_keeping_duplicates(Append(acc, doc), urls \cup {url}, Tail(docs))
          ELSE Merge_keeping_duplicates(acc, urls, Tail(docs))

\* the merge loop of recommend: append the documents whose url is new
RECURSIVE Merge(_, _, _)
Merge(acc, urls, docs) ==
  IF docs = <<>> THEN [retrieved |-> acc, seen_urls |-> urls]
  ELSE LET doc == Head(docs)
           url == doc.assessment_url
       IN IF url # "" /\ url \notin urls
          THEN Merge(Append(acc, doc), urls \cup {url}, Tail(docs))
          ELSE Merge(acc, urls, Tail(docs))

\* score_with_llm, given what the model call produced: a call that failed,
\* or a list of integers that ScoreList validates
score_with_llm(answer) ==
  IF answer.kind = "error"
  THEN [raised |-> TRUE, result |-> <<>>]
  ELSE IF \A i \in 1..Len(answer.scores) : answer.scores[i] \in 1..5
  THEN [raised |-> FALSE, result |-> answer.scores]
  ELSE [raised |-> TRUE, result |-> <<>>]

\* zip(a, b)
Zip(a, b) == [i \in 1..Min(Len(a), Len(b)) |-> <<a[i], b[i]>>]

Reverse(s) == [i \in 1..Len(s) |-> s[Len(s) + 1 - i]]

\* a stable ascending sort of pairs by their second component
RECURSIVE SortAscending(_)
SortAscending(s) ==
  IF s = <<>> THEN <<>>
  ELSE LET front == SortAscending(SubSeq(s, 1, Len(s) - 1))
           x == s[Len(s)]
           p == Cardinality({i \in 1..Len(front) : front[i][2] <= x[2]})
       IN SubSeq(front, 1, p) \o <<x>> \o SubSeq(front, p + 1, Len(front))

\* sorted(pairs, key=lambda x: x[1], reverse=True): the list is reversed,
\* sorted ascending by a stable sort, and reversed again
sorted_reverse_unstable(pairs) == Reverse(SortAscending(pairs))

sorted_reverse(pairs) == Reverse(SortAscending(Reverse(pairs)))

\* the str a sequence of characters is
RECURSIVE Str(_)
Str(chars) == IF chars = <<>> THEN "" ELSE Head(chars) \o Str(Tail(chars))

\* [TEST_TYPE_MAP.get(c, c) for c in codes]
RECURSIVE test_type_names(_)
test_type_names(codes) ==
  IF codes = <<>> THEN <<>>
  ELSE <<IF Head(codes) \in DOMAIN TEST_TYPE_MAP
         THEN TEST_TYPE_MAP[Head(codes)]
         ELSE Str(Head(codes))>> \o test_type_names(Tail(codes))

\* the record recommend emits for a document
Recommendation(doc) ==
  [url       |-> doc.assessment_url,
   name      |-> doc.assessment_name,
   duration  |-> duration_as_int(doc.duration),
   test_type |-> test_type_names(extract_test_types(doc))]

\* the final loop of recommend, from position i of ranked on
RECURSIVE EmitFrom(_, _, _, _, _)
EmitFrom(ranked, i, out, urls, k) ==
  IF i > Len(ranked) THEN out
  ELSE LET doc == ranked[i][1]
           url == doc.assessment_url
       IN IF url # "" /\ url \notin urls
          THEN (IF Len(out) + 1 >= k
                THEN Append(out, Recommendation(doc))
                ELSE EmitFrom(ranked, i + 1, Append(out, Recommendation(doc)),
                              urls \cup {url}, k))
          ELSE EmitFrom(ranked, i + 1, out, urls, k)

(* ------------------------------- state --------------------------------- *)
VARIABLES
  \* one call of balanced_selection on its own (SpecSel)
  sel_pc,        \* "input" before the call, "done" after it
  sel_docs,      \* argument docs
  sel_req,       \* argument required_test_types
  sel_k,         \* argument k
  sel_first,     \* selected, as it stands between the two loops
  sel_out,       \* the list returned
  sel_trace,     \* the state of the first loop before each iteration it ran
  \* one call of duration_as_int on its own (SpecDur)
  dur_pc,
  dur_raw,       \* argument raw
  dur_out,       \* the value returned
  \* one build of the documents of a catalog on its own (SpecDoc)
  doc_pc,
  doc_rows,      \* the rows of the catalog
  doc_built,     \* the documents added to the vector store
  \* one call of load_catalog on its own (SpecLoad)
  load_pc,
  load_table,    \* the DataFrame read from the csv file
  load_result,   \* what the call raised or returned
  \* one call of recommend (Spec)
  pc,            \* position in recommend
  index,         \* the documents of the vector store, nearest to the query first
  k_arg,         \* argument k
  intent_answer, \* what the intent model call produced
  score_answer,  \* what the scoring model call produced
  domains,       \* what detect_query_intent returned
  required_test_types,
  next_type,     \* position of the loop "for t in required_test_types"
  retrieved,
  seen_urls,
  balanced,
  scores,
  recommended,
  error,         \* the exception that ended the call, "none" otherwise
  calls          \* the external calls issued so far, in order

sel_vars == <<sel_pc, sel_docs, sel_req, sel_k, sel_first, sel_out, sel_trace>>

dur_vars == <<dur_pc, dur_raw, dur_out>>

doc_vars == <<doc_pc, doc_rows, doc_built>>

load_vars == <<load_pc, load_table, load_result>>

aux_vars == <<dur_vars, doc_vars, load_vars>>

rec_vars == <<pc, index, k_arg, intent_answer, score_answer, domains, required_test_types, next_type,
              retrieved, seen_urls, balanced, scores, recommended, error, calls>>

vars == <<sel_vars, rec_vars, aux_vars>>

(* ------------------------------ input sets ----------------------------- *)
\* catalog rows: a shared url, an empty url, a row with two codes written
\* "K, P", a row whose code no query below asks for, and a row "B,X" whose
\* second token is not a key of TEST_TYPE_MAP
Minutes45 == StrDuration(<<"4", "5", " ", "m", "i", "n", "u", "t", "e", "s">>)
Plain60 == StrDuration(<<"6", "0">>)
NotAvailable == StrDuration(<<"N", "/", "A">>)

RowPool ==
  { [name |-> "n1", url |-> "u1", test_type |-> <<"K">>, duration |-> Minutes45],
    [name |-> "n2", url |-> "u2", test_type |-> <<"P">>, duration |-> Plain60],
    [name |-> "n3", url |-> "u1", test_type |-> <<"P">>, duration |-> NotAvailable],
    [name |-> "n4", url |-> "",   test_type |-> <<"K">>, duration |-> StrDuration(<<>>)],
    [name |-> "n5", url |-> "u3", test_type |-> <<"K", ",", " ", "P">>, duration |-> NoDuration],
    [name |-> "n6", url |-> "u4", test_type |-> <<"S">>, duration |-> FloatDuration(30)],
    [name |-> "n7", url |-> "u5", test_type |-> <<"B", ",", "X">>, duration |-> Plain60] }

DocPool == {row_to_document(row) : row \in RowPool}

ReqCodes == { <<"K">>, <<"P">>, <<"B">> }

\* the lists of distinct required codes
ReqLists == UNION {Orderings(S) : S \in SUBSET ReqCodes}

SelIdle ==
  /\ sel_pc = "idle"
  /\ sel_docs = <<>>
  /\ sel_req = <<>>
  /\ sel_k = 0
  /\ sel_first = <<>>
  /\ sel_out = <<>>
  /\ sel_trace = <<>>

DurIdle ==
  /\ dur_pc = "idle"
  /\ dur_raw = NoDuration
  /\ dur_out = <<>>

DocIdle ==
  /\ doc_pc = "idle"
  /\ doc_rows = <<>>
  /\ doc_built = <<>>

LoadIdle ==
  /\ load_pc = "idle"
  /\ load_table = NoTable
  /\ load_result = load_catalog(NoTable)

AuxIdle == DurIdle /\ DocIdle /\ LoadIdle

RecIdle ==
  /\ pc = "idle"
  /\ index = <<>>
  /\ k_arg = 0
  /\ intent_answer = [kind |-> "none"]
  /\ score_answer = [kind |-> "none"]
  /\ domains = <<>>
  /\ required_test_types = <<>>
  /\ next_type = 1
  /\ retrieved = <<>>
  /\ seen_urls = {}
  /\ balanced = <<>>
  /\ scores = <<>>
  /\ recommended = <<>>
  /\ error = "none"
  /\ calls = <<>>

(* ------------------ SpecSel: balanced_selection alone ------------------ *)
InitSel ==
  /\ sel_pc = "input"
  /\ sel_docs \in BSeq(DocPool, MaxLen)
  /\ sel_req \in ReqLists
  /\ sel_k \in 0..MaxK
  /\ sel_first = <<>>
  /\ sel_out = <<>>
  /\ sel_trace = <<>>
  /\ RecIdle
  /\ AuxIdle

\* the call balanced_selection(sel_docs, sel_req, sel_k)
BalancedSelection ==
  /\ sel_pc = "input"
  /\ sel_first' = FirstPass(sel_docs, sel_req, sel_k).selected
  /\ sel_out' = balanced_selection(sel_docs, sel_req, sel_k)
  /\ sel_trace' = FirstPassTrace(sel_docs, 1, SelInit(sel_req), sel_req, sel_k)
  /\ sel_pc' = "done"
  /\ UNCHANGED <<sel_docs, sel_req, sel_k, rec_vars, aux_vars>>

NextSel == BalancedSelection

SpecSel == InitSel /\ [][NextSel]_vars

(* --------------------------- Spec: recommend --------------------------- *)
\* a catalog large enough to fill the retrieval budget, by decreasing
\* similarity to the query: 11 rows of code K alternating with 11 of code P,
\* then a row that repeats the first url, a row without url and a row of
\* code S
BigCatalog ==
  << [name |-> "b01", url |-> "w01", test_type |-> <<"K">>, duration |-> Plain60],
     [name |-> "b02", url |-> "w02", test_type |-> <<"P">>, duration |-> NoDuration],
     [name |-> "b03", url |-> "w03", test_type |-> <<"K">>, duration |-> Minutes45],
     [name |-> "b04", url |-> "w04", test_type |-> <<"P">>, duration |-> Plain60],
     [name |-> "b05", url |-> "w05", test_type |-> <<"K">>, duration |-> NoDuration],
     [name |-> "b06", url |-> "w06", test_type |-> <<"P">>, duration |-> Minutes45],
     [name |-> "b07", url |-> "w07", test_type |-> <<"K">>, duration |-> Plain60],
     [name |-> "b08", url |-> "w08", test_type |-> <<"P">>, duration |-> NoDuration],
     [name |-> "b09", url |-> "w09", test_type |-> <<"K">>, duration |-> Minutes45],
     [name |-> "b10", url |-> "w10", test_type |-> <<"P">>, duration |-> Plain60],
     [name |-> "b11", url |-> "w11", test_type |-> <<"K">>, duration |-> NoDuration],
     [name |-> "b12", url |-> "w12", test_type |-> <<"P">>, duration |-> Minutes45],
     [name |-> "b13", url |-> "w13", test_type |-> <<"K">>, duration |-> Plain60],
     [name |-> "b14", url |-> "w14", test_type |-> <<"P">>, duration |-> NoDuration],
     [name |-> "b15", url |-> "w15", test_type |-> <<"K">>, duration |-> Minutes45],
     [name |-> "b16", url |-> "w16", test_type |-> <<"P">>, duration |-> Plain60],
     [name |-> "b17", url |-> "w17", test_type |-> <<"K">>, duration |-> NoDuration],
     [name |-> "b18", url |-> "w18", test_type |-> <<"P">>, duration |-> Minutes45],
     [name |-> "b19", url |-> "w19", test_type |-> <<"K">>, duration |-> Plain60],
     [name |-> "b20", url |-> "w20", test_type |-> <<"P">>, duration |-> NoDuration],
     [name |-> "b21", url |-> "w21", test_type |-> <<"K">>, duration |-> Minutes45],
     [name |-> "b22", url |-> "w22", test_type |-> <<"P">>, duration |-> Plain60],
     [name |-> "b23", url |-> "w01", test_type |-> <<"K">>, duration |-> NoDuration],
     [name |-> "b24", url |-> "",    test_type |-> <<"K">>, duration |-> Minutes45],
     [name |-> "b25", url |-> "w25", test_type |-> <<"S">>, duration |-> Plain60] >>

BigIndex == [i \in 1..Len(BigCatalog) |-> row_to_document(BigCatalog[i])]

\* a small catalog: the rows of RowPool in one order
SmallCatalog ==
  << [name |-> "n4", url |-> "",   test_type |-> <<"K">>, duration |-> StrDuration(<<>>)],
     [name |-> "n3", url |-> "u1", test_type |-> <<"P">>, duration |-> NotAvailable],
     [name |-> "n1", url |-> "u1", test_type |-> <<"K">>, duration |-> Minutes45],
     [name |-> "n5", url |-> "u3", test_type |-> <<"K", ",", " ", "P">>, duration |-> NoDuration],
     [name |-> "n6", url |-> "u4", test_type |-> <<"S">>, duration |-> FloatDuration(30)],
     [name |-> "n2", url |-> "u2", test_type |-> <<"P">>, duration |-> Plain60],
     [name |-> "n7", url |-> "u5", test_type |-> <<"B", ",", "X">>, duration |-> Plain60] >>

SmallIndex == [i \in 1..Len(SmallCatalog) |-> row_to_document(SmallCatalog[i])]

\* the vector stores: every list of at most MaxIndex documents, and the two
\* catalogs above
Indexes == BSeq(DocPool, MaxIndex) \cup {SmallIndex, BigIndex}

\* labels the intent model may answer with; the last is not a DomainType
LabelPool ==
  {"Knowledge & Skills", "Biodata & Situational Judgment", "Leadership"}

IntentAnswers ==
  {[kind |-> "error"]} \cup
  {[kind |-> "labels", labels |-> l] : l \in BSeq(LabelPool, MaxDomains)}

\* integers the scoring model may answer with; 6 is out of range
ScoreValues == {1, 5, 6}

ScoreAnswers ==
  {[kind |-> "error"]} \cup
  {[kind |-> "scores", scores |-> l] : l \in BSeq(ScoreValues, MaxScores)}

Call(name, t, n) == [call |-> name, filter |-> t, k |-> n]

Init ==
  /\ pc = "start"
  /\ index \in Indexes
  /\ k_arg \in 0..MaxK
  /\ intent_answer = [kind |-> "none"]
  /\ score_answer = [kind |-> "none"]
  /\ domains = <<>>
  /\ required_test_types = <<>>
  /\ next_type = 1
  /\ retrieved = <<>>
  /\ seen_urls = {}
  /\ balanced = <<>>
  /\ scores = <<>>
  /\ recommended = <<>>
  /\ error = "none"
  /\ calls = <<>>
  /\ SelIdle
  /\ AuxIdle

\* recommend up to the retrieval loop: the intent call, the resolution of
\* the domains and the fallback
DetectIntent ==
  /\ pc = "start"
  /\ \E answer \in IntentAnswers :
       LET r == detect_query_intent(answer)
       IN /\ intent_answer' = answer
          /\ calls' = Append(calls, Call("classify", <<>>, 0))
          /\ IF r.raised
             THEN /\ pc' = "failed"
                  /\ error' = "classification"
                  /\ UNCHANGED <<domains, required_test_types>>
             ELSE /\ domains' = r.result
                  /\ \E order \in Orderings(infer_required_test_types(r.result)) :
                        required_test_types' = WithFallback(order)
                  /\ pc' = "retrieve"
                  /\ UNCHANGED error
  /\ UNCHANGED <<index, k_arg, score_answer, next_type, retrieved, seen_urls,
                 balanced, scores, recommended, sel_vars, aux_vars>>

\* one iteration of "for t in required_test_types"
FilteredSearch ==
  /\ pc = "retrieve"
  /\ next_type <= Len(required_test_types)
  /\ LET t == required_test_types[next_type]
         n == per_type_k(required_test_types)
     IN /\ calls' = Append(calls, Call("search", t, n))
        /\ \/ /\ pc' = "failed"
              /\ error' = "search"
              /\ UNCHANGED <<next_type, retrieved, seen_urls>>
           \/ LET m == Merge(retrieved, seen_urls, filtered_search(index, t, n))
              IN /\ retrieved' = m.retrieved
                 /\ seen_urls' = m.seen_urls
                 /\ next_type' = next_type + 1
                 /\ UNCHANGED <<pc, error>>
  /\ UNCHANGED <<index, k_arg, intent_answer, score_answer, domains,
                 required_test_types, balanced, scores, recommended, sel_vars, aux_vars>>

\* after the loop: the top-up search when the budget is not filled, then
\* balanced_selection
TopUpAndSelect ==
  /\ pc = "retrieve"
  /\ next_type > Len(required_test_types)
  /\ IF Len(retrieved) < TOP_K_RETRIEVE
     THEN LET n == TOP_K_RETRIEVE - Len(retrieved)
          IN /\ calls' = Append(calls, Call("search_all", <<>>, n))
             /\ \/ /\ pc' = "failed"
                   /\ error' = "search"
                   /\ UNCHANGED <<retrieved, seen_urls, balanced>>
                \/ LET m == Merge(retrieved, seen_urls, similarity_search(index, n))
                   IN /\ retrieved' = m.retrieved
                      /\ seen_urls' = m.seen_urls
                      /\ balanced' = balanced_selection(m.retrieved,
                                                        required_test_types, k_arg)
                      /\ pc' = "score"
                      /\ UNCHANGED error
     ELSE /\ balanced' = balanced_selection(retrieved, required_test_types, k_arg)
          /\ pc' = "score"
          /\ UNCHANGED <<retrieved, seen_urls, error, calls>>
  /\ UNCHANGED <<index, k_arg, intent_answer, score_answer, domains,
                 required_test_types, next_type, scores, recommended, sel_vars, aux_vars>>

\* the scoring call issued a second time after it raised
ScoreAndEmit_retrying ==
  /\ pc = "score"
  /\ \E answer \in ScoreAnswers :
       LET r == score_with_llm(answer)
       IN /\ score_answer' = answer
          /\ calls' = Append(calls, Call("score", <<>>, 0))
          /\ IF r.raised
             THEN /\ IF calls[Len(calls)].call = "score"
                     THEN pc' = "failed" /\ error' = "scoring"
                     ELSE UNCHANGED <<pc, error>>
                  /\ UNCHANGED <<scores, recommended>>
             ELSE /\ scores' = r.result
                  /\ recommended' =
                       EmitFrom(sorted_reverse(Zip(balanced, r.result)), 1,
                                <<>>, {}, k_arg)
                  /\ pc' = "done"
                  /\ UNCHANGED error
  /\ UNCHANGED <<index, k_arg, intent_answer, domains, required_test_types,
                 next_type, retrieved, seen_urls, balanced, sel_vars, aux_vars>>

\* the scoring call, the sort and the final loop
ScoreAndEmit ==
  /\ pc = "score"
  /\ \E answer \in ScoreAnswers :
       LET r == score_with_llm(answer)
       IN /\ score_answer' = answer
          /\ calls' = Append(calls, Call("score", <<>>, 0))
          /\ IF r.raised
             THEN /\ pc' = "failed"
                  /\ error' = "scoring"
                  /\ UNCHANGED <<scores, recommended>>
             ELSE /\ scores' = r.result
                  /\ recommended' =
                       EmitFrom(sorted_reverse(Zip(balanced, r.result)), 1,
                                <<>>, {}, k_arg)
                  /\ pc' = "done"
                  /\ UNCHANGED error
  /\ UNCHANGED <<index, k_arg, intent_answer, domains, required_test_types,
                 next_type, retrieved, seen_urls, balanced, sel_vars, aux_vars>>

Next == DetectIntent \/ FilteredSearch \/ TopUpAndSelect \/ ScoreAndEmit

Spec == Init /\ [][Next]_vars

(* ------------------- properties of balanced_selection ------------------ *)
Urls(s) == {s[i].assessment_url : i \in 1..Len(s)}

NoDuplicateUrls(s) ==
  \A i, j \in 1..Len(s) : i # j => s[i].assessment_url # s[j].assessment_url

\* the candidate at position i carries the code c
Carries(s, i, c) == InList(c, extract_test_types(s[i]))

\* the positions of s whose url is not empty
WithUrl(s) == {i \in 1..Len(s) : s[i].assessment_url # ""}

\* of the positions I of s, the first one for every url
FirstByUrl(s, I) ==
  {i \in I : \A j \in I : j < i => s[j].assessment_url # s[i].assessment_url}

RECURSIVE KeepFrom(_, _, _)
KeepFrom(s, I, i) ==
  IF i > Len(s) THEN <<>>
  ELSE (IF i \in I THEN <<s[i]>> ELSE <<>>) \o KeepFrom(s, I, i + 1)

\* the elements of s at the positions I, in the order of s
KeepAt(s, I) == KeepFrom(s, I, 1)

\* C1: for every candidate list, every list of required codes and every
\* k >= 0, balanced_selection returns at most k documents.
C1_AtMostK == sel_pc = "done" => Len(sel_out) <= sel_k

\* C1 witness: more candidates with distinct urls than k >= 1, and the call
\* returned exactly k of them.
C1_Witness ==
  /\ sel_pc = "done"
  /\ sel_k >= 1
  /\ Cardinality(Urls(sel_docs) \ {""}) > sel_k
  /\ Len(sel_out) = sel_k

\* C2: the output of balanced_selection never holds two documents with the
\* same url, the selections of the first and of the second loop together.
C2_NoDuplicateUrls == sel_pc = "done" => NoDuplicateUrls(sel_out)

\* C2 witness: two candidates share a url, the first loop selected something
\* and the second loop added something.
C2_Witness ==
  /\ sel_pc = "done"
  /\ \E i, j \in WithUrl(sel_docs) :
        i < j /\ sel_docs[i].assessment_url = sel_docs[j].assessment_url
  /\ sel_first # <<>>
  /\ Len(sel_out) > Len(sel_first)

\* C3: every document of the output of balanced_selection is an element of
\* the candidate list, unaltered.
C3_SubsetOfInput ==
  sel_pc = "done" => \A i \in 1..Len(sel_out) : sel_out[i] \in Range(sel_docs)

\* C3 witness: a call that selected a document in the first loop, one whose
\* codes are stored as "K, P", and left a candidate out.
C3_Witness ==
  /\ sel_pc = "done"
  /\ \E i \in 1..Len(sel_first) : sel_first[i].test_type_codes = <<"K", ",", " ", "P">>
  /\ Len(sel_out) < Len(sel_docs)

\* C4 as claimed: with no required code the first loop accepts nothing and
\* the output is the first k candidates after de-duplication by url.
C4_Claimed ==
  (sel_pc = "done" /\ sel_req = <<>>) =>
     /\ sel_first = <<>>
     /\ sel_out = Take(KeepAt(sel_docs, FirstByUrl(sel_docs, 1..Len(sel_docs))),
                       sel_k)

\* C4 as amended: with no required code the first loop accepts nothing and
\* the output is the first k candidates with a non-empty url after
\* de-duplication by url, in input order, for every k >= 0.
C4_TopKOfNonEmptyUrls ==
  (sel_pc = "done" /\ sel_req = <<>>) =>
     /\ sel_first = <<>>
     /\ sel_out = Take(KeepAt(sel_docs, FirstByUrl(sel_docs, WithUrl(sel_docs))),
                       sel_k)

\* C4 witness: no required code, a candidate with an empty url, a repeated
\* url, and a non-empty output.
C4_Witness ==
  /\ sel_pc = "done"
  /\ sel_req = <<>>
  /\ "" \in Urls(sel_docs)
  /\ \E i, j \in WithUrl(sel_docs) :
        i < j /\ sel_docs[i].assessment_url = sel_docs[j].assessment_url
  /\ sel_out # <<>>

\* the positions of the candidates that carry the one required code
OneCodeMatches == {i \in 1..Len(sel_docs) : Carries(sel_docs, i, sel_req[1])}

\* the case of C5: one required code, k >= 1, at most k matching candidates
C5_Case ==
  /\ sel_pc = "done"
  /\ Len(sel_req) = 1
  /\ sel_k >= 1
  /\ Cardinality(OneCodeMatches) <= sel_k

\* C5 as claimed: the first loop selects every matching candidate and the
\* remaining slots are filled by the candidates that do not match, in input
\* order.
C5_Claimed ==
  C5_Case =>
     /\ sel_first = KeepAt(sel_docs, OneCodeMatches)
     /\ sel_out = Take(sel_first \o
                         KeepAt(sel_docs, (1..Len(sel_docs)) \ OneCodeMatches),
                       sel_k)

\* C5 as amended: with one required code c, k >= 1 and at most k candidates
\* matching c, the first loop selects every matching candidate that has a
\* non-empty url not carried by an earlier matching candidate, and the
\* remaining slots up to k are filled, in input order, by the candidates not
\* matching c that have a non-empty url not yet in the output.
C5_OneCodeAllMatchesFirst ==
  C5_Case =>
     /\ sel_first =
          KeepAt(sel_docs, FirstByUrl(sel_docs, OneCodeMatches \cap WithUrl(sel_docs)))
     /\ sel_out =
          Take(sel_first \o
                 KeepAt(sel_docs,
                        FirstByUrl(sel_docs,
                                   {i \in WithUrl(sel_docs) \ OneCodeMatches :
                                      sel_docs[i].assessment_url \notin Urls(sel_first)})),
               sel_k)

\* C5 witness: one required code, two matching candidates both selected by
\* the first loop, and a slot filled by a candidate that does not match.
C5_Witness ==
  /\ C5_Case
  /\ Len(sel_first) = 2
  /\ Len(sel_out) > Len(sel_first)

(* ------------------------ properties of recommend ---------------------- *)
\* the intent call was made and recommend went on past it
PastIntent == pc \in {"retrieve", "score", "done"} \/ (pc = "failed" /\ error # "classification")

\* the intent model answered with labels that QueryIntent rejects
IntentRejected ==
  /\ intent_answer.kind = "labels"
  /\ \E i \in 1..Len(intent_answer.labels) : intent_answer.labels[i] \notin DomainType

\* the scoring model answered with integers that ScoreList rejects
ScoresRejected ==
  /\ score_answer.kind = "scores"
  /\ \E i \in 1..Len(score_answer.scores) : score_answer.scores[i] \notin 1..5

\* the position of the document with this url in the balanced set
BalancedPos(url) == CHOOSE i \in 1..Len(balanced) : balanced[i].assessment_url = url

\* C6: a recommend(query, k) call that returns does so with at most k
\* recommendation records, whatever the index, the intent answer and the
\* scorer answer.
C6_AtMostKRecords == pc = "done" => Len(recommended) <= k_arg

\* C6 witness: more candidates retrieved than k >= 1, and exactly k records
\* returned.
C6_Witness ==
  /\ pc = "done"
  /\ k_arg >= 1
  /\ Len(retrieved) > k_arg
  /\ Len(recommended) = k_arg

\* C7: whenever the classified domains resolve to no code, the required
\* codes are exactly the default pair K, P; every filtered search and the
\* balanced selection run with a non-empty list of required codes.
C7_DefaultCodes ==
  PastIntent =>
     /\ required_test_types # <<>>
     /\ infer_required_test_types(domains) = {}
           => required_test_types = << <<"K">>, <<"P">> >>
     /\ infer_required_test_types(domains) # {}
           => Range(required_test_types) = infer_required_test_types(domains)
     /\ \A i \in 1..Len(calls) :
           calls[i].call = "search" => calls[i].filter \in Range(required_test_types)

\* C7 witness: the intent model named only an unknown domain, and recommend
\* searched with the filter K and then P and selected a balanced set.
C7_Witness ==
  /\ pc = "score"
  /\ intent_answer = [kind |-> "labels", labels |-> <<"Leadership">>]
  /\ Len(calls) >= 3
  /\ calls[2].filter = <<"K">>
  /\ calls[3].filter = <<"P">>
  /\ balanced # <<>>

\* C8: the output of recommend is the scored part of the balanced set in
\* descending order of score, and two documents with the same score keep the
\* relative order they have in the output of balanced_selection.
C8_StableDescending ==
  pc = "done" =>
     /\ \A i \in 1..Len(recommended) :
           /\ recommended[i].url \in Urls(balanced)
           /\ BalancedPos(recommended[i].url) <= Len(scores)
     /\ \A i, j \in 1..Len(recommended) :
           i < j =>
             LET bi == BalancedPos(recommended[i].url)
                 bj == BalancedPos(recommended[j].url)
             IN \/ scores[bi] > scores[bj]
                \/ scores[bi] = scores[bj] /\ bi < bj
     /\ Len(scores) >= Len(balanced) =>
           {recommended[i].url : i \in 1..Len(recommended)} = Urls(balanced)

\* C8 witness: three documents returned, the second of the balanced set
\* scored above the first and the third, which share a score.
C8_Witness ==
  /\ pc = "done"
  /\ Len(recommended) = 3
  /\ Len(scores) = 3
  /\ scores[2] > scores[1]
  /\ scores[1] = scores[3]
  /\ recommended[2].url = balanced[1].assessment_url

\* C9: when the scoring model's list has a length other than the number of
\* documents it was given, or holds a value outside 1..5, recommend fails
\* with a scoring error and returns no list.
C9_ScoringContractEnforced ==
  (score_answer.kind = "scores" /\
     (Len(score_answer.scores) # Len(balanced) \/ ScoresRejected))
  => (pc = "failed" /\ error = "scoring" /\ recommended = <<>>)

\* every failure of a search or of the scoring call ends recommend with an
\* error and without a list
OtherFailuresSurface ==
  /\ (score_answer.kind = "error" \/ ScoresRejected)
        => (pc = "failed" /\ error = "scoring" /\ recommended = <<>>)
  /\ error = "search" => (pc = "failed" /\ recommended = <<>>)
  /\ pc = "failed" <=> error # "none"

\* C10 as claimed: no failure of the intent call fails recommend, which
\* goes on with the default codes; every other failure is surfaced.
C10_Claimed ==
  /\ (intent_answer.kind = "error" \/ IntentRejected)
        => /\ error # "classification"
           /\ domains = <<>>
           /\ required_test_types = << <<"K">>, <<"P">> >>
  /\ OtherFailuresSurface

\* C10 as amended: an output-validation failure of the intent call never
\* fails recommend: detect_query_intent returns the empty list and recommend
\* goes on with the default codes; any other failure of the intent call, and
\* every failure of a search or of the scoring call, is surfaced as an error
\* to the caller of recommend.
C10_ValidationFailureDegrades ==
  /\ IntentRejected
        => /\ error # "classification"
           /\ domains = <<>>
           /\ required_test_types = << <<"K">>, <<"P">> >>
  /\ intent_answer.kind = "error"
        => (pc = "failed" /\ error = "classification" /\ recommended = <<>>)
  /\ OtherFailuresSurface

\* C10 witness: the intent model named a valid and an invalid domain, and
\* recommend returned a non-empty list.
C10_Witness ==
  /\ pc = "done"
  /\ intent_answer = [kind |-> "labels",
                      labels |-> <<"Knowledge & Skills", "Leadership">>]
  /\ recommended # <<>>

(* -------------------- SpecDur: duration_as_int alone ------------------- *)
DurAlphabet == {"0", "4", "5", " ", "m"}

DurationInputs ==
  {NoDuration, NaNDuration, FloatDuration(7), Minutes45, Plain60, NotAvailable}
  \cup {StrDuration(s) : s \in BSeq(DurAlphabet, MaxDurLen)}

InitDur ==
  /\ dur_pc = "input"
  /\ dur_raw \in DurationInputs
  /\ dur_out = <<>>
  /\ SelIdle
  /\ RecIdle
  /\ DocIdle
  /\ LoadIdle

\* the call duration_as_int(dur_raw)
DurationAsInt ==
  /\ dur_pc = "input"
  /\ dur_out' = duration_as_int(dur_raw)
  /\ dur_pc' = "done"
  /\ UNCHANGED <<dur_raw, sel_vars, rec_vars, doc_vars, load_vars>>

NextDur == DurationAsInt

SpecDur == InitDur /\ [][NextDur]_vars

(* ------------------- properties of duration_as_int --------------------- *)
HasDigit(s) == \E i \in 1..Len(s) : s[i] \in Digits

\* the position of the first digit of s, and of the last digit of the run
\* that starts there
FirstDigitAt(s) ==
  CHOOSE i \in 1..Len(s) : s[i] \in Digits /\ \A j \in 1..(i - 1) : s[j] \notin Digits

RunEndAt(s) ==
  CHOOSE j \in FirstDigitAt(s)..Len(s) :
    /\ \A p \in FirstDigitAt(s)..j : s[p] \in Digits
    /\ j = Len(s) \/ s[j + 1] \notin Digits

RECURSIVE Pow10(_)
Pow10(n) == IF n = 0 THEN 1 ELSE 10 * Pow10(n - 1)

\* the decimal value of the digits of s at positions i..j
RECURSIVE DecimalValue(_, _, _)
DecimalValue(s, i, j) ==
  IF i > j THEN 0
  ELSE DigitValue(s[i]) * Pow10(j - i) + DecimalValue(s, i + 1, j)

\* C11: duration_as_int returns the first maximal run of decimal digits of
\* the duration field as an integer, and None when the field is absent or
\* holds no digit: "45 minutes" gives 45, "60" gives 60, "N/A" gives None,
\* "" gives None.
C11_FirstDigitRun ==
  dur_pc = "done" =>
     /\ dur_raw.kind = "none" => dur_out = <<>>
     /\ (dur_raw.kind = "str" /\ ~HasDigit(dur_raw.chars)) => dur_out = <<>>
     /\ (dur_raw.kind = "str" /\ HasDigit(dur_raw.chars)) =>
           dur_out = <<DecimalValue(dur_raw.chars, FirstDigitAt(dur_raw.chars),
                                    RunEndAt(dur_raw.chars))>>
     /\ dur_raw = Minutes45 => dur_out = <<45>>
     /\ dur_raw = Plain60 => dur_out = <<60>>
     /\ dur_raw = NotAvailable => dur_out = <<>>
     /\ dur_raw = StrDuration(<<>>) => dur_out = <<>>

\* C11 witness: a string with two runs of digits; the first was returned.
C11_Witness ==
  /\ dur_pc = "done"
  /\ dur_raw = StrDuration(<<"4", " ", "5">>)
  /\ dur_out = <<4>>

(* ---------------------- the external calls of recommend ---------------- *)
\* the i-th external call has the place the code gives it: the intent call,
\* then one filtered search per required code in list order, then the
\* top-up search if any, then the scoring call
CallInPlace(i) ==
  LET n == Len(required_test_types)
  IN \/ i = 1 /\ calls[i].call = "classify"
     \/ /\ i \in 2..(n + 1)
        /\ calls[i].call = "search"
        /\ calls[i].filter = required_test_types[i - 1]
     \/ i = n + 2 /\ calls[i].call \in {"search_all", "score"}
     \/ i = n + 3 /\ calls[i].call = "score" /\ calls[i - 1].call = "search_all"

Selected == pc \in {"score", "done"} \/ (pc = "failed" /\ error = "scoring")

\* C13: in recommend the balanced set has min(k, size of the merged set)
\* documents: exactly k when the merged set holds at least k candidates,
\* the whole merged set otherwise, for every k >= 0.
C13_BalancedSize ==
  Selected =>
     /\ Len(balanced) = Min(k_arg, Len(retrieved))
     /\ Len(retrieved) <= k_arg => balanced = retrieved

\* C13 witness: a merged set of more than k candidates cut down to k >= 2
\* documents, and not by taking its first k.
C13_Witness ==
  /\ Selected
  /\ k_arg >= 2
  /\ Len(retrieved) > k_arg
  /\ Len(balanced) = k_arg
  /\ balanced # Take(retrieved, k_arg)

(* --------------------- the test_type field of a record ----------------- *)
\* the 8 category names
CategoryNames == {TEST_TYPE_MAP[c] : c \in DOMAIN TEST_TYPE_MAP}

\* C14: every element of the test_type field of every recommendation
\* recommend emits is one of the 8 category names, whatever tokens the raw
\* test-type string of the document holds.
C14_OnlyCategoryNames ==
  pc = "done" =>
     \A i \in 1..Len(recommended) :
        \A j \in 1..Len(recommended[i].test_type) :
           recommended[i].test_type[j] \in CategoryNames

(* ------------------------- two runs of recommend ----------------------- *)
\* the retrieval loop of recommend from the i-th required code on
RECURSIVE RetrieveFrom(_, _, _, _)
RetrieveFrom(store, required, i, m) ==
  IF i > Len(required) THEN m
  ELSE RetrieveFrom(store, required, i + 1,
                    Merge(m.retrieved, m.seen_urls,
                          filtered_search(store, required[i], per_type_k(required))))

\* the merged candidates of recommend: the retrieval loop, then the top-up
Retrieve(store, required) ==
  LET m == RetrieveFrom(store, required, 1, [retrieved |-> <<>>, seen_urls |-> {}])
  IN IF Len(m.retrieved) < TOP_K_RETRIEVE
     THEN Merge(m.retrieved, m.seen_urls,
                similarity_search(store, TOP_K_RETRIEVE - Len(m.retrieved))).retrieved
     ELSE m.retrieved

\* what recommend returns when list(test_types) is `required`, the searches
\* succeed and the scoring model answers `answer`
recommend_from(store, required, k, answer) ==
  EmitFrom(sorted_reverse(Zip(balanced_selection(Retrieve(store, required), required, k),
                              answer)),
           1, <<>>, {}, k)

\* the run recorded in the state is the run recommend_from computes
SameRun ==
  pc = "done" => recommended = recommend_from(index, required_test_types, k_arg, scores)

\* C15: with the same index, the same classifier output and the same scores,
\* every run of recommend returns the same recommendations in the same
\* order: the order in which list(test_types) lists the required codes makes
\* no difference.
C15_SameOutputEveryRun ==
  pc = "done" =>
     \A order \in Orderings(infer_required_test_types(domains)) :
        recommend_from(index, WithFallback(order), k_arg, scores) = recommended

(* --------------------- SpecDoc: the document builder ------------------- *)
TypeAlphabet == {"K", "P", ",", " "}

\* str(row["test_type"]) of a row: every string over the alphabet, and "nan"
\* for a row whose cell is empty
TypeStrings == BSeq(TypeAlphabet, MaxTypeLen) \cup { <<"n", "a", "n">> }

\* rows of every test_type string under one url, and two rows under another
CatalogRows ==
  {[name |-> "n", url |-> "u1", test_type |-> t, duration |-> NoDuration] :
     t \in TypeStrings}
  \cup
  {[name |-> "n", url |-> "u2", test_type |-> t, duration |-> NoDuration] :
     t \in { <<"K">>, <<"P">> }}

InitDoc ==
  /\ doc_pc = "input"
  /\ doc_rows \in BSeq(CatalogRows, MaxRows)
  /\ doc_built = <<>>
  /\ SelIdle
  /\ RecIdle
  /\ DurIdle
  /\ LoadIdle

\* build_chroma_vectorstore, from the loaded catalog to add_documents
BuildDocuments ==
  /\ doc_pc = "input"
  /\ doc_built' = build_documents(doc_rows)
  /\ doc_pc' = "done"
  /\ UNCHANGED <<doc_rows, sel_vars, rec_vars, dur_vars, load_vars>>

NextDoc == BuildDocuments

SpecDoc == InitDoc /\ [][NextDoc]_vars

\* the comma-separated pieces of raw, as pairs of positions: a piece starts
\* at the start of raw or right after a comma, and ends at the end of raw or
\* right before a comma
Pieces(raw) ==
  {<<a, b>> \in (1..(Len(raw) + 1)) \X (0..Len(raw)) :
     /\ b >= a - 1
     /\ a = 1 \/ raw[a - 1] = ","
     /\ b = Len(raw) \/ raw[b + 1] = ","
     /\ \A p \in a..b : raw[p] # ","}

\* c is one of the comma-separated codes of raw: some piece is c with
\* nothing but white space around it
IsCodeOf(c, raw) ==
  \E piece \in Pieces(raw) :
     \E p \in piece[1]..piece[2] :
        /\ p + Len(c) - 1 <= piece[2]
        /\ SubSeq(raw, p, p + Len(c) - 1) = c
        /\ \A q \in piece[1]..piece[2] :
              (q < p \/ q > p + Len(c) - 1) => raw[q] \in Whitespace

\* C16: the document builder yields one document per catalog row, with the
\* row's url; for each of the 8 codes c the flag is_type_c of the document
\* is true exactly when c is one of the comma-separated codes of the row;
\* so a document returned by a search filtered on is_type_c has c in the
\* list extract_test_types reads back from it.
C16_FlagsMatchCodes ==
  doc_pc = "done" =>
     /\ Len(doc_built) = Len(doc_rows)
     /\ \A i \in 1..Len(doc_rows) :
           /\ doc_built[i].assessment_url = doc_rows[i].url
           /\ \A c \in Range(TEST_TYPE_CODES) :
                 doc_built[i].is_type[c] <=> IsCodeOf(c, doc_rows[i].test_type)
     /\ \A c \in Range(TEST_TYPE_CODES) :
           LET found == filtered_search(doc_built, c, Len(doc_built))
           IN \A j \in 1..Len(found) : InList(c, extract_test_types(found[j]))

\* C16 witness: a row "K, " built into a document whose only flag is
\* is_type_K and which the search filtered on is_type_K returns.
C16_Witness ==
  /\ doc_pc = "done"
  /\ Len(doc_rows) = 1
  /\ doc_rows[1].test_type = <<"K", ",", " ">>
  /\ doc_built[1].is_type[<<"K">>]
  /\ ~doc_built[1].is_type[<<"P">>]
  /\ filtered_search(doc_built, <<"K">>, 1) = doc_built

(* ----------------------- SpecLoad: load_catalog alone ------------------ *)
ColumnNames == Range(required_columns) \cup {"extra"}

RowCounts == {0} \cup ((MIN_ROWS - RowSlack)..(MIN_ROWS + RowSlack))

Tables == {[columns |-> cs, nrows |-> n] : cs \in SUBSET ColumnNames, n \in RowCounts}

InitLoad ==
  /\ load_pc = "input"
  /\ load_table \in Tables
  /\ load_result = load_catalog(NoTable)
  /\ SelIdle
  /\ RecIdle
  /\ DurIdle
  /\ DocIdle

\* the call load_catalog(csv_path), after read_csv returned load_table
LoadCatalog ==
  /\ load_pc = "input"
  /\ load_result' = load_catalog(load_table)
  /\ load_pc' = "done"
  /\ UNCHANGED <<load_table, sel_vars, rec_vars, dur_vars, doc_vars>>

NextLoad == LoadCatalog

SpecLoad == InitLoad /\ [][NextLoad]_vars

(* ------------------------ properties of load_catalog ------------------- *)
AllColumns(table) == Range(required_columns) \subseteq table.columns

\* a table that has every column and too few rows
TooFewRows == [columns |-> Range(required_columns), nrows |-> 0]

\* a table that lacks a column
MissingColumn == [columns |-> Range(required_columns) \ {"url"}, nrows |-> MIN_ROWS]

\* fails when a required column is missing, fails when the rows are too
\* few, returns the catalog unchanged otherwise
FailsOrReturns ==
  /\ ~AllColumns(load_table) => load_result.raised
  /\ (AllColumns(load_table) /\ load_table.nrows < MIN_ROWS) => load_result.raised
  /\ (AllColumns(load_table) /\ load_table.nrows >= MIN_ROWS)
        => (~load_result.raised /\ load_result.df = load_table)

MatchingCodes(doc) == {c \in Range(sel_req) : IsCodeOf(c, doc.test_type_codes)}

\* the number of documents of sel that carry the code c
CountOf(c, sel) ==
  Cardinality({j \in 1..Len(sel) : IsCodeOf(c, sel[j].test_type_codes)})

\* max(1, k // max(1, |required_codes|)) of the call
Target == Max(1, sel_k \div Max(1, Len(sel_req)))

\* the first pass as it stands when it considers candidate i: before the
\* i-th iteration, or at its end for a candidate it never reaches
Before(i) ==
  IF i <= Len(sel_trace) THEN sel_trace[i] ELSE sel_trace[Len(sel_trace)]

\* the first pass accepted candidate i
Accepted(i) ==
  /\ i < Len(sel_trace)
  /\ sel_trace[i + 1].selected = Append(sel_trace[i].selected, sel_docs[i])

\* the url of candidate i is new, its codes intersect the required codes
\* and a matching code has a count below the target
Eligible(i) ==
  /\ sel_docs[i].assessment_url \notin Urls(Before(i).selected)
  /\ \E c \in MatchingCodes(sel_docs[i]) : CountOf(c, Before(i).selected) < Target

\* the accept-counts are the numbers of accepted documents per required
\* code: an acceptance adds one to the count of every matching code
CountsFollowAcceptances ==
  \A i \in 1..Len(sel_trace) :
     \A c \in Range(sel_req) :
        sel_trace[i].type_counts[c] = CountOf(c, sel_trace[i].selected)

\* C18 as claimed: in the first pass a candidate is accepted exactly when
\* its url is new, its codes intersect the required codes and one of its
\* matching codes has a count below per_type_target; an acceptance adds one
\* to the count of every matching code.
C18_Claimed ==
  sel_pc = "done" =>
     /\ CountsFollowAcceptances
     /\ \A i \in 1..Len(sel_docs) : Accepted(i) <=> Eligible(i)

\* C18 amended: in the first pass a candidate is accepted exactly when
\* fewer than k documents are selected so far, its url is not empty and is
\* new, its codes intersect the required codes and one of its matching
\* codes has a count below per_type_target; an acceptance adds one to the
\* count of every matching code, and nothing else changes a count.
C18_FirstPassRule ==
  sel_pc = "done" =>
     /\ CountsFollowAcceptances
     /\ sel_first = sel_trace[Len(sel_trace)].selected
     /\ \A i \in 1..Len(sel_docs) :
           /\ Accepted(i) <=>
                 /\ Len(Before(i).selected) < sel_k
                 /\ sel_docs[i].assessment_url # ""
                 /\ Eligible(i)
           /\ (i < Len(sel_trace) /\ ~Accepted(i))
                 => sel_trace[i + 1].selected = sel_trace[i].selected

\* C18 witness: a first pass that left a count above the target and, with
\* room left, refused a candidate with a new url whose matching codes had
\* all reached the target.
C18_Witness ==
  /\ sel_pc = "done"
  /\ \E c \in Range(sel_req) : CountOf(c, sel_first) > Target
  /\ \E i \in 1..Len(sel_docs) :
        /\ Len(Before(i).selected) < sel_k
        /\ sel_docs[i].assessment_url # ""
        /\ sel_docs[i].assessment_url \notin Urls(Before(i).selected)
        /\ MatchingCodes(sel_docs[i]) # {}
        /\ ~Accepted(i)

(* ------------------- the order of balanced_selection ------------------- *)
\* a is b with some of its elements left out
IsSubsequence(a, b) == \E I \in SUBSET (1..Len(b)) : KeepAt(b, I) = a

\* the documents the second pass added to the output
Fills == SubSeq(sel_out, Len(sel_first) + 1, Len(sel_out))

\* C19: the output of balanced_selection is the first-pass selections
\* followed by the second-pass fills, and within each of the two groups the
\* documents are in the order they have in the input candidate list.
C19_FirstPassThenFills ==
  sel_pc = "done" =>
     /\ Len(sel_first) <= Len(sel_out)
     /\ SubSeq(sel_out, 1, Len(sel_first)) = sel_first
     /\ IsSubsequence(sel_first, sel_docs)
     /\ IsSubsequence(Fills, sel_docs)

\* C19 witness: an output of one first-pass selection and two fills, where
\* both fills precede the first-pass selection in the input.
C19_Witness ==
  /\ sel_pc = "done"
  /\ Len(sel_first) = 1
  /\ Len(Fills) = 2
  /\ Fills # <<>> /\ Fills[1] # Fills[2]
  /\ sel_docs = Fills \o sel_first

(* ---------------------- the retrieval of recommend --------------------- *)
\* max(1, 20 // |codes|) of the call
PerCode == Max(1, 20 \div Len(required_test_types))

\* what the search filtered on the code c returns: the first PerCode
\* documents of the index, nearest first, whose flag is_type_c is set
ResultsFor(c) == Take(KeepAt(index, {i \in 1..Len(index) : index[i].is_type[c]}), PerCode)

\* the results of the first n filtered searches, in code iteration order
RECURSIVE FilteredResults(_)
FilteredResults(n) ==
  IF n = 0 THEN <<>>
  ELSE FilteredResults(n - 1) \o ResultsFor(required_test_types[n])

AllFiltered == FilteredResults(Len(required_test_types))

\* s without the documents whose url an earlier document of s has
SkipSeen(s) == KeepAt(s, FirstByUrl(s, 1..Len(s)))

\* s without the documents that have no url or whose url an earlier
\* document of s has
SkipSeenAndEmpty(s) == KeepAt(s, FirstByUrl(s, WithUrl(s)))

\* the calls of the searches are the ones stated, given the merged filtered
\* results
SearchCalls(merged) ==
  /\ \A i \in 1..Len(required_test_types) :
        calls[1 + i] = Call("search", required_test_types[i], PerCode)
  /\ \A i \in 1..Len(calls) :
        calls[i].call = "search_all" =>
           /\ i = Len(required_test_types) + 2
           /\ Len(merged) < 20
           /\ calls[i].k = 20 - Len(merged)
  /\ Len(merged) < 20 =>
        /\ Len(calls) >= Len(required_test_types) + 2
        /\ calls[Len(required_test_types) + 2].call = "search_all"

\* C20 as claimed: each filtered search is issued with k = max(1, 20 //
\* |codes|); the results are appended in code iteration order, then
\* similarity order, skipping urls already seen; only when fewer than 20
\* candidates were merged, one unfiltered search is issued with k = 20 minus
\* the merged count, and its not-yet-seen results are appended after all
\* filtered results.
C20_Claimed ==
  Selected =>
     LET merged == SkipSeen(AllFiltered)
     IN /\ SearchCalls(merged)
        /\ retrieved =
              IF Len(merged) < 20
              THEN SkipSeen(merged \o Take(index, 20 - Len(merged)))
              ELSE merged

\* C20 amended: as claimed, where the merge skips the results that have no
\* url as well as those whose url was already seen, for the filtered and
\* for the unfiltered results, and the merged count counts what was kept.
C20_RetrievalAndMerge ==
  Selected =>
     LET merged == SkipSeenAndEmpty(AllFiltered)
     IN /\ SearchCalls(merged)
        /\ retrieved =
              IF Len(merged) < 20
              THEN SkipSeenAndEmpty(merged \o Take(index, 20 - Len(merged)))
              ELSE merged

\* C20 witness: one required code, a filtered search with k = 20 that
\* returned 13 documents of which 11 were kept, and an unfiltered search
\* with k = 9 that added 4 more.
C20_Witness ==
  /\ Selected
  /\ Len(required_test_types) = 1
  /\ Len(AllFiltered) = 13
  /\ Len(SkipSeenAndEmpty(AllFiltered)) = 11
  /\ calls[3] = Call("search_all", <<>>, 9)
  /\ Len(retrieved) = 15

(* ------------------------ the balancing guarantee ---------------------- *)
\* some document of s carries the code c
Covers(s, c) == \E i \in 1..Len(s) : IsCodeOf(c, s[i].test_type_codes)

\* candidate i has a url, and carries the code c
CarrierAt(i, c) ==
  /\ sel_docs[i].assessment_url # ""
  /\ IsCodeOf(c, sel_docs[i].test_type_codes)

\* no candidate before candidate i has its url
FirstWithItsUrl(i) ==
  \A j \in 1..(i - 1) : sel_docs[j].assessment_url # sel_docs[i].assessment_url

\* the candidates are one document that carries K and one that carries B,
\* under two urls
OneKOneB ==
  /\ Len(sel_docs) = 2
  /\ \E i, j \in 1..2 :
        /\ i # j
        /\ CarrierAt(i, <<"K">>)
        /\ CarrierAt(j, <<"B">>)
        /\ sel_docs[i].assessment_url # sel_docs[j].assessment_url

DistinctUrlsWithinBudget(s) ==
  /\ NoDuplicateUrls(s)
  /\ \A i \in 1..Len(s) : s[i].assessment_url # ""
  /\ Len(s) <= 20

\* the first n of the 8 codes
FirstCodes(n) == Take(TEST_TYPE_CODES, n)

\* C22: at every point of a recommend call the merged candidate list holds
\* pairwise distinct, non-empty urls and at most 20 candidates, for every
\* non-empty list of up to 8 required codes; so the final de-duplication by
\* url removes nothing, and the output has min(size of the balanced set,
\* number of scores) records.
C22_MergedListAndOutputSize ==
  /\ DistinctUrlsWithinBudget(retrieved)
  /\ pc = "start" => \A n \in 1..8 : DistinctUrlsWithinBudget(Retrieve(index, FirstCodes(n)))
  /\ pc = "done" =>
        LET ranked == sorted_reverse(Zip(balanced, scores))
        IN /\ Len(recommended) = Min(Len(balanced), Len(scores))
           /\ \A i \in 1..Len(recommended) :
                 recommended[i].url = ranked[i][1].assessment_url

\* C22 witness: a call whose two filtered searches merged exactly 20
\* documents and whose scorer answered with fewer scores than the balanced
\* set has documents: the output has as many records as there are scores.
C22_Witness ==
  /\ pc = "done"
  /\ Len(retrieved) = 20
  /\ Len(required_test_types) = 2
  /\ Len(scores) >= 1
  /\ Len(scores) < Len(balanced)
  /\ Len(recommended) = Len(scores)

====
